---- MODULE Spec2Model ----
(***************************************************************************)
(* A model of webserver.py: the accept loop of WebServer.start, the        *)
(* per-connection thread WebServer.handle_client, and the pure functions   *)
(* it calls (request-line parsing, percent-decoding, path normalisation,   *)
(* form parsing, response framing).                                        *)
(*                                                                         *)
(* Text (Python str) is a sequence of characters and a byte string (Python *)
(* bytes) is a sequence of bytes.  An ASCII character and the byte that    *)
(* encodes it are written as the same one-character string; a byte above   *)
(* 0x7F is written "xHH" and a non-ASCII character "U+HHHH", so that       *)
(* encoding and decoding are real conversions with differing lengths.      *)
(***************************************************************************)
EXTENDS Integers, Sequences, FiniteSets, TLC

(***************************************************************************)
(* Bounds of the model.                                                    *)
(***************************************************************************)
\* Connections the Acceptor takes in one behaviour.
MaxConns == 2

(***************************************************************************)
(* Literals of the source.                                                 *)
(***************************************************************************)
BufSize == 1024
StaticRoot == <<".", "/", "w", "w", "w">>
RootPath == <<"/">>
IndexPath == <<"/", "i", "n", "d", "e", "x", ".", "h", "t", "m", "l">>
SubmitPath == <<"/", "s", "u", "b", "m", "i", "t">>
GET == <<"G", "E", "T">>
POST == <<"P", "O", "S", "T">>
HttpVersion == <<"H", "T", "T", "P", "/", "1", ".", "1">>
CRLF == <<"\r", "\n">>
CRLFCRLF == <<"\r", "\n", "\r", "\n">>
ContentTypeHdr == <<"C", "o", "n", "t", "e", "n", "t", "-", "T", "y", "p", "e", ":", " ">>
ContentLengthHdr == <<"C", "o", "n", "t", "e", "n", "t", "-", "L", "e", "n", "g", "t", "h", ":", " ">>
TextPlain == <<"t", "e", "x", "t", "/", "p", "l", "a", "i", "n">>
TextHtml == <<"t", "e", "x", "t", "/", "h", "t", "m", "l">>
OkText == <<"O", "K">>
ForbiddenText == <<"F", "o", "r", "b", "i", "d", "d", "e", "n">>
NotFoundText == <<"N", "o", "t", " ", "F", "o", "u", "n", "d">>
MethodNotAllowedText == <<"M", "e", "t", "h", "o", "d", " ", "N", "o", "t", " ", "A", "l", "l", "o", "w", "e", "d">>
FormSubmitted == <<"F", "o", "r", "m", " ", "s", "u", "b", "m", "i", "t", "t", "e", "d", " ", "s", "u", "c", "c", "e", "s", "s", "f", "u", "l", "l", "y", "!", "\n">>
KeySep == <<":", " ">>

(***************************************************************************)
(* Python str and bytes methods.                                           *)
(***************************************************************************)
\* The characters str.split() and str.strip() treat as whitespace.
Whitespace == {" ", "\t", "\r", "\n"}

Min(a, b) == IF a < b THEN a ELSE b

\* s[i:] for a 1-based i.
Drop(s, i) == SubSeq(s, i, Len(s))

\* s.startswith(p)
StartsWith(s, p) == Len(p) <= Len(s) /\ SubSeq(s, 1, Len(p)) = p

\* s.find(p), 1-based; 0 when p does not occur.
Find(s, p) ==
  LET hits == {i \in 1..(Len(s) - Len(p) + 1) : SubSeq(s, i, i + Len(p) - 1) = p}
  IN  IF hits = {} THEN 0 ELSE CHOOSE i \in hits : \A j \in hits : i <= j

\* s.split(sep): every piece, the empty ones included.
RECURSIVE Split(_, _)
Split(s, sep) ==
  LET i == Find(s, sep)
  IN  IF i = 0 THEN <<s>>
      ELSE <<SubSeq(s, 1, i - 1)>> \o Split(Drop(s, i + Len(sep)), sep)

\* s.split(sep, 1): at most two pieces.
Split1(s, sep) ==
  LET i == Find(s, sep)
  IN  IF i = 0 THEN <<s>>
      ELSE <<SubSeq(s, 1, i - 1), Drop(s, i + Len(sep))>>

\* sep.join(parts)
RECURSIVE Join(_, _)
Join(parts, sep) ==
  IF parts = <<>> THEN <<>>
  ELSE IF Len(parts) = 1 THEN parts[1]
  ELSE parts[1] \o sep \o Join(Tail(parts), sep)

\* s.strip()
RECURSIVE LStrip(_)
LStrip(s) == IF s # <<>> /\ s[1] \in Whitespace THEN LStrip(Tail(s)) ELSE s

RECURSIVE RStrip(_)
RStrip(s) ==
  IF s # <<>> /\ s[Len(s)] \in Whitespace THEN RStrip(SubSeq(s, 1, Len(s) - 1)) ELSE s

Strip(s) == RStrip(LStrip(s))

\* s.split() with no separator: the runs of non-whitespace characters.
RECURSIVE SplitWhitespace(_)
SplitWhitespace(s) ==
  LET t == LStrip(s)
      ws == {i \in 1..Len(t) : t[i] \in Whitespace}
      e == IF ws = {} THEN Len(t) + 1 ELSE CHOOSE i \in ws : \A j \in ws : i <= j
  IN  IF t = <<>> THEN <<>>
      ELSE <<SubSeq(t, 1, e - 1)>> \o SplitWhitespace(Drop(t, e))

\* s.replace(a, b) for single characters.
Replace(s, a, b) == [i \in 1..Len(s) |-> IF s[i] = a THEN b ELSE s[i]]

\* str(n) for a natural number.
Digit == <<"0", "1", "2", "3", "4", "5", "6", "7", "8", "9">>

RECURSIVE Str(_)
Str(n) == IF n < 10 THEN <<Digit[n + 1]>> ELSE Str(n \div 10) \o <<Digit[(n % 10) + 1]>>

(***************************************************************************)
(* UTF-8.  The bytes above 0x7F that occur and the characters they encode. *)
(***************************************************************************)
HighBytes == {"xC3", "xA9", "xEF", "xBF", "xBD", "xFF"}
NonAscii == {"U+E9", "U+FFFD"}
ReplacementChar == "U+FFFD"

Utf8Of == [ch \in NonAscii |->
             IF ch = "U+E9" THEN <<"xC3", "xA9">> ELSE <<"xEF", "xBF", "xBD">>]

\* str.encode('utf-8')
RECURSIVE encode(_)
encode(s) ==
  IF s = <<>> THEN <<>>
  ELSE (IF s[1] \in NonAscii THEN Utf8Of[s[1]] ELSE <<s[1]>>) \o encode(Tail(s))

\* The characters whose encoding starts the byte string b.
CharAt(b) == {ch \in NonAscii : StartsWith(b, Utf8Of[ch])}

\* The length of the longest truncated encoding that starts b: what the
\* 'replace' error handler consumes for one replacement character.
BadPrefixLen(b) ==
  LET ks == {k \in 1..Len(b) :
               \E ch \in NonAscii : k < Len(Utf8Of[ch])
                                    /\ SubSeq(b, 1, k) = SubSeq(Utf8Of[ch], 1, k)}
  IN  IF ks = {} THEN 1 ELSE CHOOSE k \in ks : \A j \in ks : j <= k

\* bytes.decode('utf-8'): whether it succeeds.
RECURSIVE ValidUtf8(_)
ValidUtf8(b) ==
  IF b = <<>> THEN TRUE
  ELSE IF b[1] \notin HighBytes THEN ValidUtf8(Tail(b))
  ELSE CharAt(b) # {} /\ ValidUtf8(Drop(b, Len(Utf8Of[CHOOSE ch \in CharAt(b) : TRUE]) + 1))

\* bytes.decode('utf-8', errors): with replace, an invalid sequence becomes
\* U+FFFD; without, the result is meaningful only when ValidUtf8(b).
RECURSIVE decode(_)
decode(b) ==
  IF b = <<>> THEN <<>>
  ELSE IF b[1] \notin HighBytes THEN <<b[1]>> \o decode(Tail(b))
  ELSE IF CharAt(b) # {}
       THEN LET ch == CHOOSE c \in CharAt(b) : TRUE
            IN  <<ch>> \o decode(Drop(b, Len(Utf8Of[ch]) + 1))
       ELSE <<ReplacementChar>> \o decode(Drop(b, BadPrefixLen(b) + 1))

(***************************************************************************)
(* urllib.parse.unquote                                                    *)
(***************************************************************************)
HexDigits == {"0", "1", "2", "3", "4", "5", "6", "7", "8", "9",
              "a", "b", "c", "d", "e", "f", "A", "B", "C", "D", "E", "F"}

HexVal(c) ==
  CASE c = "0" -> 0 [] c = "1" -> 1 [] c = "2" -> 2 [] c = "3" -> 3 [] c = "4" -> 4
    [] c = "5" -> 5 [] c = "6" -> 6 [] c = "7" -> 7 [] c = "8" -> 8 [] c = "9" -> 9
    [] c \in {"a", "A"} -> 10 [] c \in {"b", "B"} -> 11 [] c \in {"c", "C"} -> 12
    [] c \in {"d", "D"} -> 13 [] c \in {"e", "E"} -> 14 [] c \in {"f", "F"} -> 15

\* The byte values the percent-escapes of the inputs denote.
ByteOfCode == [n \in {10, 32, 46, 47, 169, 195, 255} |->
                 CASE n = 10 -> "\n" [] n = 32 -> " " [] n = 46 -> "." [] n = 47 -> "/"
                   [] n = 169 -> "xA9" [] n = 195 -> "xC3" [] n = 255 -> "xFF"]

\* unquote_to_bytes: %XX becomes the byte XX, anything else is kept.
RECURSIVE unquote_to_bytes(_)
unquote_to_bytes(s) ==
  IF s = <<>> THEN <<>>
  ELSE IF s[1] = "%" /\ Len(s) >= 3 /\ s[2] \in HexDigits /\ s[3] \in HexDigits
       THEN <<ByteOfCode[16 * HexVal(s[2]) + HexVal(s[3])]>> \o unquote_to_bytes(Drop(s, 4))
       ELSE encode(<<s[1]>>) \o unquote_to_bytes(Tail(s))

\* unquote(string): the escapes decoded as UTF-8 with errors='replace'.
unquote(s) == IF \A i \in 1..Len(s) : s[i] # "%" THEN s ELSE decode(unquote_to_bytes(s))

(***************************************************************************)
(* os.path.normpath (posixpath)                                            *)
(***************************************************************************)
Dot == <<".">>
DotDot == <<".", ".">>
Slash == <<"/">>

\* The loop over the components: new_comps after the components comps.
RECURSIVE NormComps(_, _, _)
NormComps(comps, new_comps, initial_slashes) ==
  IF comps = <<>> THEN new_comps
  ELSE LET comp == comps[1]
           next == IF comp \in {<<>>, Dot} THEN new_comps
                   ELSE IF comp # DotDot
                           \/ (initial_slashes = 0 /\ new_comps = <<>>)
                           \/ (new_comps # <<>> /\ new_comps[Len(new_comps)] = DotDot)
                        THEN Append(new_comps, comp)
                   ELSE IF new_comps # <<>>
                        THEN SubSeq(new_comps, 1, Len(new_comps) - 1)
                   ELSE new_comps
       IN  NormComps(Tail(comps), next, initial_slashes)

normpath(path) ==
  IF path = <<>> THEN Dot
  ELSE LET initial_slashes ==
             IF ~StartsWith(path, Slash) THEN 0
             ELSE IF StartsWith(path, <<"/", "/">>) /\ ~StartsWith(path, <<"/", "/", "/">>)
                  THEN 2 ELSE 1
           joined == Join(NormComps(Split(path, Slash), <<>>, initial_slashes), Slash)
           result == [i \in 1..initial_slashes |-> "/"] \o joined
       IN  IF result = <<>> THEN Dot ELSE result

(***************************************************************************)
(* The file system the server runs on, relative to its working directory. *)
(* A location is the sequence of names from the working directory, with    *)
(* leading ".." names for a location above it.                             *)
(***************************************************************************)
WwwName == <<"w", "w", "w">>
IndexName == <<"i", "n", "d", "e", "x", ".", "h", "t", "m", "l">>
SecretName == <<"k", "e", "y">>
EtcName == <<"e", "t", "c">>
PasswdName == <<"p", "a", "s", "s", "w", "d">>

\* The start of the page main() writes to www/index.html; the e-acute makes
\* its byte length differ from its character count.
IndexContent == <<"\n", "<", "h", "1", ">", "xC3", "xA9", "<", "/", "h", "1", ">", "\n">>
PasswdContent == <<"r", "o", "o", "t", ":", "x">>
SecretContent == <<"s", "3">>

Directories == {<<>>, <<WwwName>>, <<DotDot>>, <<DotDot, EtcName>>}
Files == {<<WwwName, IndexName>>, <<WwwName, SecretName>>, <<DotDot, EtcName, PasswdName>>}
\* www/key exists and may not be read by the server's user.
Unreadable == {<<WwwName, SecretName>>}

FileContent(loc) ==
  IF loc = <<WwwName, IndexName>> THEN IndexContent
  ELSE IF loc = <<DotDot, EtcName, PasswdName>> THEN PasswdContent
  ELSE SecretContent

\* The kernel's walk of a relative path: the location reached, or the error.
RECURSIVE Walk(_, _)
Walk(comps, loc) ==
  IF comps = <<>> THEN [err |-> "none", loc |-> loc]
  ELSE IF loc \in Files THEN [err |-> "ENOTDIR", loc |-> loc]
  ELSE IF loc \notin Directories THEN [err |-> "ENOENT", loc |-> loc]
  ELSE LET comp == comps[1]
           next == IF comp \in {<<>>, Dot} THEN loc
                   ELSE IF comp = DotDot
                        THEN (IF loc = <<>> \/ loc[Len(loc)] = DotDot
                              THEN Append(loc, DotDot)
                              ELSE SubSeq(loc, 1, Len(loc) - 1))
                   ELSE Append(loc, comp)
       IN  Walk(Tail(comps), next)

\* Whether a location lies in the static root www.
InRoot(loc) == loc # <<>> /\ loc[1] = WwwName

\* open(file_path, 'rb') and file.read(): the content, or the exception.
open(file_path) ==
  LET w == Walk(Split(file_path, Slash), <<>>)
  IN  IF w.err = "ENOTDIR" THEN [exc |-> "NotADirectoryError", loc |-> w.loc, content |-> <<>>]
      ELSE IF w.err = "ENOENT" \/ w.loc \notin (Files \cup Directories)
           THEN [exc |-> "FileNotFoundError", loc |-> w.loc, content |-> <<>>]
      ELSE IF w.loc \in Directories
           THEN [exc |-> "IsADirectoryError", loc |-> w.loc, content |-> <<>>]
      ELSE IF w.loc \in Unreadable
           THEN [exc |-> "PermissionError", loc |-> w.loc, content |-> <<>>]
      ELSE [exc |-> "none", loc |-> w.loc, content |-> FileContent(w.loc)]

\* mimetypes.guess_type(file_path)[0] or 'text/plain'
EndsWith(s, p) == Len(p) <= Len(s) /\ SubSeq(s, Len(s) - Len(p) + 1, Len(s)) = p

guess_type(file_path) ==
  IF EndsWith(file_path, <<".", "h", "t", "m", "l">>) THEN TextHtml ELSE TextPlain

(***************************************************************************)
(* urllib.parse.parse_qs                                                   *)
(***************************************************************************)
\* parse_qsl: the (name, value) pairs, in order; a field without "=" or
\* with an empty value is skipped (keep_blank_values is False).
RECURSIVE QslOf(_)
QslOf(query_args) ==
  IF query_args = <<>> THEN <<>>
  ELSE LET nv == Split1(query_args[1], <<"=">>)
           rest == QslOf(Tail(query_args))
       IN  IF query_args[1] = <<>> \/ Len(nv) # 2 \/ Len(nv[2]) = 0 THEN rest
           ELSE <<[name |-> unquote(Replace(nv[1], "+", " ")),
                   value |-> unquote(Replace(nv[2], "+", " "))]>> \o rest

parse_qsl(qs) == IF qs = <<>> THEN <<>> ELSE QslOf(Split(qs, <<"&">>))

\* The dict parse_qs builds, as its items in insertion order: a name seen
\* again appends its value to the name's list.
RECURSIVE Collect(_, _)
Collect(pairs, items) ==
  IF pairs = <<>> THEN items
  ELSE LET p == pairs[1]
           at == {i \in 1..Len(items) : items[i].key = p.name}
       IN  Collect(Tail(pairs),
                   IF at = {} THEN Append(items, [key |-> p.name, value |-> <<p.value>>])
                   ELSE [i \in 1..Len(items) |->
                           IF i \in at
                           THEN [key |-> items[i].key, value |-> Append(items[i].value, p.value)]
                           ELSE items[i]])

parse_qs(qs) == Collect(parse_qsl(qs), <<>>)

(***************************************************************************)
(* WebServer.create_response, handle_get_request, handle_post_request.     *)
(* A Python value that is a str is [kind |-> "str", data |-> characters],  *)
(* one that is bytes is [kind |-> "bytes", data |-> bytes].                *)
(***************************************************************************)
PyStr(s) == [kind |-> "str", data |-> s]
PyBytes(b) == [kind |-> "bytes", data |-> b]
NoValue == [kind |-> "none", data |-> <<>>]

\* f"HTTP/1.1 {status_code} {status_text}"
StatusLine(status_code, status_text) ==
  HttpVersion \o <<" ">> \o Str(status_code) \o <<" ">> \o status_text

create_response(status_code, status_text, content) ==
  LET headers == <<StatusLine(status_code, status_text),
                   ContentTypeHdr \o TextPlain,
                   ContentLengthHdr \o Str(Len(content))>>
  IN  Join(headers, CRLF) \o CRLFCRLF \o content

\* What a handler hands back to handle_client: the value it returns or the
\* exception it raises, and the locations open() was called on.
Returns(v, opens) == [exc |-> "none", value |-> v, opened |-> opens]
Raises(e, opens) == [exc |-> e, value |-> NoValue, opened |-> opens]

\* The traversal test left out: every path is opened.
PathAllowed_Unchecked(file_path) == TRUE

\* The traversal test made against the normalised root, which lets the
\* paths under www through to open().
PathAllowed_NormalisedRoot(file_path) ==
  StartsWith(normpath(file_path), normpath(StaticRoot))

\* The directory-traversal check of handle_get_request.
PathAllowed(file_path) == StartsWith(normpath(file_path), StaticRoot)

\* The 200 response of handle_get_request: the encoded head, then the content.
FileResponse(file_path, content) ==
  LET headers == <<ContentTypeHdr \o guess_type(file_path),
                   ContentLengthHdr \o Str(Len(content))>>
      response == StatusLine(200, OkText) \o CRLF \o Join(headers, CRLF) \o CRLFCRLF
  IN  PyBytes(encode(response) \o content)

handle_get_request(path0) ==
  LET path == IF path0 = RootPath THEN IndexPath ELSE path0
      file_path == StaticRoot \o path
      f == open(file_path)
  IN  IF ~PathAllowed(file_path)
      THEN Returns(PyStr(create_response(403, ForbiddenText, <<>>)), {})
      ELSE IF f.exc = "none"
           THEN Returns(FileResponse(file_path, f.content), {f.loc})
      ELSE IF f.exc = "FileNotFoundError"
           THEN Returns(PyStr(create_response(404, NotFoundText, <<>>)), {f.loc})
      ELSE IF f.exc = "PermissionError"
           THEN Returns(PyStr(create_response(403, ForbiddenText, <<>>)), {f.loc})
      ELSE Raises(f.exc, {f.loc})

\* The echo with value[-1] for value[0].
RECURSIVE FormLines_LastValue(_)
FormLines_LastValue(items) ==
  IF items = <<>> THEN <<>>
  ELSE items[1].key \o KeySep \o items[1].value[Len(items[1].value)] \o <<"\n">>
         \o FormLines_LastValue(Tail(items))

\* The lines of the form echo: f"{key}: {value[0]}\n" for each item.
RECURSIVE FormLines(_)
FormLines(items) ==
  IF items = <<>> THEN <<>>
  ELSE items[1].key \o KeySep \o items[1].value[1] \o <<"\n">> \o FormLines(Tail(items))

\* request.split('\r\n\r\n', 1)[-1]
RequestBody(request) ==
  LET parts == Split1(request, CRLFCRLF) IN parts[Len(parts)]

handle_post_request(request, path) ==
  LET form_data == parse_qs(RequestBody(request))
  IN  IF path = SubmitPath
      THEN Returns(PyStr(create_response(200, OkText, FormSubmitted \o FormLines(form_data))), {})
      ELSE Returns(PyStr(create_response(404, NotFoundText, <<>>)), {})

(***************************************************************************)
(* WebServer.handle_client, from the bytes recv returned to the response.  *)
(***************************************************************************)
\* request.split('\n')[0].strip().split()
RequestLine(request) == SplitWhitespace(Strip(Split(request, <<"\n">>)[1]))

\* unquote(path.split('?')[0])
DecodedPath(token) == unquote(Split(token, <<"?">>)[1])

\* The dispatch without its else branch: what is not POST is served as GET.
Route_NoElse(method) ==
  IF method = POST THEN "handle_post_request" ELSE "handle_get_request"

\* Lines 46-51: the branch a method takes.
Route(method) ==
  IF method = GET THEN "handle_get_request"
  ELSE IF method = POST THEN "handle_post_request"
  ELSE "create_response"

\* Lines 36-51: the handler called and what it handed back.
Dispatch(data) ==
  IF ~ValidUtf8(data)
  THEN [called |-> "none"] @@ Raises("UnicodeDecodeError", {})
  ELSE LET request == decode(data)
           tokens == RequestLine(request)
       IN  IF Len(tokens) # 3
           THEN [called |-> "none"] @@ Raises("ValueError", {})
           ELSE LET method == tokens[1]
                    path == DecodedPath(tokens[2])
                    route == Route(method)
                IN  [called |-> route] @@
                    (IF route = "handle_get_request" THEN handle_get_request(path)
                     ELSE IF route = "handle_post_request"
                          THEN handle_post_request(request, path)
                     ELSE Returns(PyStr(create_response(405, MethodNotAllowedText, <<>>)), {}))

\* "except ValueError" for "except Exception".
Caught_ValueErrorOnly(e) == e = "ValueError"

\* The exceptions "except Exception" catches: every one that can be raised here.
Caught(e) ==
  e \in {"UnicodeDecodeError", "ValueError", "AttributeError",
         "IsADirectoryError", "NotADirectoryError"}

(***************************************************************************)
(* The clients: what one connection's peer may send before the handler's   *)
(* single recv.  A well-formed request is text: the request line, a Host   *)
(* header, a blank line and the body.  A request with a byte that is not   *)
(* UTF-8 anywhere in it, the body included, has no request line to speak   *)
(* of, since recv's bytes are decoded as a whole: it counts as malformed.  *)
(***************************************************************************)
T_Index == <<"/", "i", "n", "d", "e", "x", ".", "h", "t", "m", "l">>
T_Root == <<"/">>
T_Query == <<"/", "i", "n", "d", "e", "x", ".", "h", "t", "m", "l", "?", "q", "=", "1">>
T_Missing == <<"/", "n", "o", "f", "i", "l", "e">>
T_Key == <<"/", "k", "e", "y">>
T_Traversal == <<"/", ".", ".", "/", ".", ".", "/", "e", "t", "c", "/", "p", "a", "s", "s", "w", "d">>
T_EncodedTraversal == <<"/", "%", "2", "E", "%", "2", "E", "/", "%", "2", "e", "%", "2", "e", "/", "e", "t", "c", "/", "p", "a", "s", "s", "w", "d">>
T_Submit == <<"/", "s", "u", "b", "m", "i", "t">>
T_Other == <<"/", "o", "t", "h", "e", "r">>
B_None == <<>>
B_One == <<"n", "a", "m", "e", "=", "A", "d", "a">>
B_Repeated == <<"n", "a", "m", "e", "=", "A", "d", "a", "&", "n", "a", "m", "e", "=", "L", "o", "v", "e", "l", "a", "c", "e">>
B_NonAscii == <<"n", "a", "m", "e", "=", "%", "C", "3", "%", "A", "9">>
B_RawNonAscii == <<"n", "=", "xC3", "xA9">>
B_Blank == <<"a", "=", "&", "b", "=", "1", "&", "a", "=", "2">>
M_Put == <<"P", "U", "T">>
M_Delete == <<"D", "E", "L", "E", "T", "E">>
M_LowerGet == <<"g", "e", "t">>

\* The bytes of a well-formed request.
HostHeader == <<"H", "o", "s", "t", ":", " ", "h">>

Wire(method, target, body) ==
  method \o <<" ">> \o target \o <<" ">> \o HttpVersion \o CRLF
    \o HostHeader \o CRLFCRLF \o body

WellFormed(method, target, body) ==
  [form |-> "well-formed", method |-> method, target |-> target, body |-> body,
   bytes |-> Wire(method, target, body)]

Malformed(form, bytes) ==
  [form |-> form, method |-> <<>>, target |-> <<>>, body |-> <<>>, bytes |-> bytes]

GetRequests ==
  {WellFormed(GET, t, B_None) :
     t \in {T_Index, T_Root, T_Query, T_Missing, T_Key, T_Traversal, T_EncodedTraversal}}

PostRequests ==
  {WellFormed(POST, T_Submit, b) :
     b \in {B_None, B_One, B_Repeated, B_NonAscii, B_RawNonAscii, B_Blank}}
    \cup {WellFormed(POST, T_Other, B_One)}

OtherMethodRequests ==
  {WellFormed(M_Put, T_Index, B_None), WellFormed(M_Delete, T_Submit, B_One),
   WellFormed(M_LowerGet, T_Root, B_None)}

MalformedRequests ==
  {Malformed("two tokens", GET \o <<" ">> \o T_Root \o CRLFCRLF),
   Malformed("four tokens", GET \o <<" ">> \o T_Root \o <<" ">> \o HttpVersion \o <<" ", "x">> \o CRLFCRLF),
   Malformed("blank line", CRLFCRLF),
   Malformed("not utf-8", GET \o <<" ", "/", "xFF", " ">> \o HttpVersion \o CRLFCRLF),
   Malformed("not utf-8", Wire(M_Put, T_Index, <<"xFF">>)),
   Malformed("not utf-8", Wire(POST, T_Submit, <<"n", "=", "xFF">>))}

\* The peer closed without sending: recv returns b''.
EmptyRead == Malformed("empty read", <<>>)

Requests == GetRequests \cup PostRequests \cup OtherMethodRequests \cup MalformedRequests

NoRequest == Malformed("nothing sent", <<>>)

\* A sample with one request for each way handle_client can end: a response
\* from each of the three dispatch branches, and each exception.
Workload ==
  {WellFormed(GET, T_Index, B_None), WellFormed(POST, T_Submit, B_Repeated),
   WellFormed(M_Put, T_Index, B_None),
   Malformed("two tokens", GET \o <<" ">> \o T_Root \o CRLFCRLF),
   Malformed("not utf-8", GET \o <<" ", "/", "xFF", " ">> \o HttpVersion \o CRLFCRLF),
   EmptyRead}

(***************************************************************************)
(* The state.                                                              *)
(***************************************************************************)
Conns == 1..MaxConns

VARIABLES
  listening,   \* server_socket is open
  apc,         \* where start() is: "accept", "spawn", "stopped"
  stop,        \* the exception that ended start(), "none" while it runs
  nconn,       \* connections accepted so far; the latest is nconn
  sock,        \* per connection: "none", "pending" (connected, not yet
               \* accepted), "open" (client_socket), "closed"
  sent,        \* per connection: what the peer sent (NoRequest: nothing yet)
  hpc,         \* per connection: where handle_client's thread is
  received,    \* per connection: the bytes recv returned
  called,      \* per connection: the handler handle_client dispatched to
  response,    \* per connection: the value the handler returned
  exc,         \* per connection: the exception raised in the try block
  opened,      \* per connection: the locations open() was called on
  wire,        \* per connection: the bytes written to the connection
  closes       \* per connection: how often client_socket.close() ran

vars == <<listening, apc, stop, nconn, sock, sent, hpc, received, called, response,
          exc, opened, wire, closes>>

acceptorVars == <<listening, apc, stop, nconn>>
handlerVars == <<hpc, received, called, response, exc, opened, wire, closes>>

\* __init__ has bound and listens; start() is at its first accept().
Init ==
  /\ listening = TRUE
  /\ apc = "accept"
  /\ stop = "none"
  /\ nconn = 0
  /\ sock = [c \in Conns |-> "none"]
  /\ sent = [c \in Conns |-> NoRequest]
  /\ hpc = [c \in Conns |-> "none"]
  /\ received = [c \in Conns |-> <<>>]
  /\ called = [c \in Conns |-> "none"]
  /\ response = [c \in Conns |-> NoValue]
  /\ exc = [c \in Conns |-> "none"]
  /\ opened = [c \in Conns |-> {}]
  /\ wire = [c \in Conns |-> <<>>]
  /\ closes = [c \in Conns |-> 0]

(***************************************************************************)
(* The peer of a connection.                                               *)
(***************************************************************************)
\* A client connects: the kernel queues the connection on the listening
\* socket.  Connections are numbered in the order they arrive.
Connect(c) ==
  /\ listening
  /\ sock[c] = "none"
  /\ \A d \in Conns : d < c => sock[d] # "none"
  /\ sock' = [sock EXCEPT ![c] = "pending"]
  /\ UNCHANGED sent
  /\ UNCHANGED acceptorVars
  /\ UNCHANGED handlerVars

\* The client sends request r, or closes its side (EmptyRead).
ClientSends(c, r) ==
  /\ sock[c] \in {"pending", "open"}
  /\ sent[c] = NoRequest
  /\ sent' = [sent EXCEPT ![c] = r]
  /\ UNCHANGED sock
  /\ UNCHANGED acceptorVars
  /\ UNCHANGED handlerVars

(***************************************************************************)
(* WebServer.start                                                         *)
(***************************************************************************)
\* Line 21: accept() returns the oldest queued connection.
Accept ==
  /\ apc = "accept"
  /\ nconn < MaxConns
  /\ sock[nconn + 1] = "pending"
  /\ nconn' = nconn + 1
  /\ sock' = [sock EXCEPT ![nconn + 1] = "open"]
  /\ apc' = "spawn"
  /\ UNCHANGED <<listening, stop, sent>>
  /\ UNCHANGED handlerVars

\* The handler run in the Acceptor's own thread (run() for start()): the
\* loop is back at accept() only when handle_client has returned.
Spawn_Inline ==
  /\ apc = "spawn"
  /\ hpc[nconn] \in {"none", "done"}
  /\ hpc' = [hpc EXCEPT ![nconn] = IF @ = "none" THEN "recv" ELSE @]
  /\ apc' = IF hpc[nconn] = "done" THEN "accept" ELSE apc
  /\ UNCHANGED <<listening, stop, nconn, sock, sent>>
  /\ UNCHANGED <<received, called, response, exc, opened, wire, closes>>

\* Lines 22-26: the thread running handle_client is started; back to accept().
Spawn ==
  /\ apc = "spawn"
  /\ hpc' = [hpc EXCEPT ![nconn] = "recv"]
  /\ apc' = "accept"
  /\ UNCHANGED <<listening, stop, nconn, sock, sent>>
  /\ UNCHANGED <<received, called, response, exc, opened, wire, closes>>

\* How start() ends on exception e: "except KeyboardInterrupt" handles only
\* that one, "finally" closes the listening socket either way.  The threads
\* already started are neither joined nor cancelled.
StartEnds(e) ==
  /\ listening' = FALSE
  /\ apc' = "stopped"
  /\ stop' = e
  /\ UNCHANGED <<nconn, sock, sent>>
  /\ UNCHANGED handlerVars

\* Lines 27-30: the interrupt arrives in the main thread, wherever it is.
Interrupt ==
  /\ apc \in {"accept", "spawn"}
  /\ StartEnds("KeyboardInterrupt")

\* Line 21: accept() raises (no file descriptor left, say).
AcceptFails ==
  /\ apc = "accept"
  /\ StartEnds("OSError")

\* Line 26: Thread.start() raises (no thread can be started).
SpawnFails ==
  /\ apc = "spawn"
  /\ StartEnds("RuntimeError")

(***************************************************************************)
(* WebServer.handle_client                                                 *)
(***************************************************************************)
\* Where the try block goes when e is raised in it: to the except clause,
\* or past it to the finally clause with e still pending.
Raise(e) == IF Caught(e) THEN "except" ELSE "unwind"

\* Lines 36-51: recv blocks until the peer has sent or closed; then the
\* request is decoded, parsed and dispatched.
Recv(c) ==
  /\ hpc[c] = "recv"
  /\ sent[c] # NoRequest
  /\ LET data == SubSeq(sent[c].bytes, 1, Min(Len(sent[c].bytes), BufSize))
         d == Dispatch(data)
     IN  /\ received' = [received EXCEPT ![c] = data]
         /\ called' = [called EXCEPT ![c] = d.called]
         /\ response' = [response EXCEPT ![c] = d.value]
         /\ exc' = [exc EXCEPT ![c] = d.exc]
         /\ opened' = [opened EXCEPT ![c] = d.opened]
         /\ hpc' = [hpc EXCEPT ![c] = IF d.exc = "none" THEN "send" ELSE Raise(d.exc)]
  /\ UNCHANGED <<sock, sent, wire, closes>>
  /\ UNCHANGED acceptorVars

\* Line 54: response.encode('utf-8') and sendall; bytes has no encode.  The
\* peer keeps its side open until the server closes: sendall does not fail.
Send(c) ==
  /\ hpc[c] = "send"
  /\ IF response[c].kind = "str"
     THEN /\ wire' = [wire EXCEPT ![c] = @ \o encode(response[c].data)]
          /\ hpc' = [hpc EXCEPT ![c] = "finally"]
          /\ UNCHANGED exc
     ELSE /\ exc' = [exc EXCEPT ![c] = "AttributeError"]
          /\ hpc' = [hpc EXCEPT ![c] = Raise("AttributeError")]
          /\ UNCHANGED wire
  /\ UNCHANGED <<sock, sent, received, called, response, opened, closes>>
  /\ UNCHANGED acceptorVars

\* Lines 55-56: the exception is caught and printed.
Except(c) ==
  /\ hpc[c] = "except"
  /\ hpc' = [hpc EXCEPT ![c] = "finally"]
  /\ UNCHANGED <<sock, sent, received, called, response, exc, opened, wire, closes>>
  /\ UNCHANGED acceptorVars

\* Lines 57-58: client_socket.close(); an exception still pending then
\* leaves handle_client and ends the thread with a traceback.
Close(c) ==
  /\ hpc[c] \in {"finally", "unwind"}
  /\ sock' = [sock EXCEPT ![c] = "closed"]
  /\ closes' = [closes EXCEPT ![c] = @ + 1]
  /\ hpc' = [hpc EXCEPT ![c] = IF hpc[c] = "finally" THEN "done" ELSE "crashed"]
  /\ UNCHANGED <<sent, received, called, response, exc, opened, wire>>
  /\ UNCHANGED acceptorVars

(***************************************************************************)
(* The server: the Acceptor, the handler threads and their peers.          *)
(***************************************************************************)
\* The server with clients that send requests of the set W.
Server(W) ==
  \/ \E c \in Conns : Connect(c)
  \/ \E c \in Conns : \E r \in W : ClientSends(c, r)
  \/ Accept
  \/ Spawn
  \/ Interrupt
  \/ AcceptFails
  \/ SpawnFails
  \/ \E c \in Conns : Recv(c)
  \/ \E c \in Conns : Send(c)
  \/ \E c \in Conns : Except(c)
  \/ \E c \in Conns : Close(c)

Next == Server(Workload)

Spec == Init /\ [][Next]_vars

\* The steps of the Acceptor's thread and of the thread of connection c.
Acceptor == Accept \/ Spawn
Handler(c) == Recv(c) \/ Send(c) \/ Except(c) \/ Close(c)

\* Whether the thread of connection c can take a step: it is past recv's
\* wait and has not returned.  This is ENABLED Handler(c), written out.
HandlerCanStep(c) ==
  \/ hpc[c] = "recv" /\ sent[c] # NoRequest
  \/ hpc[c] \in {"send", "except", "finally", "unwind"}

\* The scheduler runs every thread that can take a step: the Acceptor and
\* the handler threads (weak fairness, for the handlers in the form
\* []<>~ENABLED \/ []<>step).  Nothing obliges a client to connect or to
\* send, and nothing obliges an interrupt or a failure to happen.
Fairness ==
  /\ WF_vars(Acceptor)
  /\ \A c \in Conns : []<>(~HandlerCanStep(c)) \/ []<><<Handler(c)>>_vars

\* For the scheduling of the threads what a client sends does not matter,
\* only whether it sends: a request that is answered, a close that is not.
NextScheduled == Server({WellFormed(GET, T_Index, B_None), EmptyRead})

FairSpec == Init /\ [][NextScheduled]_vars /\ Fairness

(***************************************************************************)
(* One connection, served from accept to close, for every request.         *)
(***************************************************************************)
NextRequest ==
  \/ Connect(1)
  \/ \E r \in Requests \cup {EmptyRead} : ClientSends(1, r)
  \/ Accept
  \/ Spawn
  \/ Recv(1)
  \/ Send(1)
  \/ Except(1)
  \/ Close(1)

RequestSpec == Init /\ [][NextRequest]_vars

(***************************************************************************)
(* What a client reads from the connection.                                *)
(***************************************************************************)
\* The header block and the body: the bytes before and after the first
\* blank line.
WireHead(w) == Split1(w, CRLFCRLF)[1]
WireBody(w) == IF Find(w, CRLFCRLF) = 0 THEN <<>> ELSE Split1(w, CRLFCRLF)[2]
WireStatusLine(w) == Split(WireHead(w), CRLF)[1]

\* The three digits after "HTTP/1.1 ", <<>> when there are none.
WireStatus(w) ==
  LET line == WireStatusLine(w)
  IN  IF StartsWith(line, HttpVersion \o <<" ">>) /\ Len(line) >= Len(HttpVersion) + 4
      THEN SubSeq(line, Len(HttpVersion) + 2, Len(HttpVersion) + 4)
      ELSE <<>>

\* The value of the header line that starts with name, <<>> when none does.
WireHeader(w, name) ==
  LET lines == Split(WireHead(w), CRLF)
      at == {i \in 2..Len(lines) : StartsWith(lines[i], name)}
  IN  IF at = {} THEN <<>>
      ELSE Drop(lines[CHOOSE i \in at : \A j \in at : i <= j], Len(name) + 1)

(***************************************************************************)
(* What the peers asked for.                                               *)
(***************************************************************************)
Served(c) == hpc[c] = "done"
IsRequest(r, method) == r.form = "well-formed" /\ r.method = method

\* The decoded, query-stripped path of a request and where it leads.
PathOf(r) == DecodedPath(r.target)
Normalised(r) == normpath(StaticRoot \o PathOf(r))
Reached(r) == Walk(Split(StaticRoot \o PathOf(r), Slash), <<>>)

\* A normalised path that is the static root or lies under it.
InsideRoot(n) == n = WwwName \/ StartsWith(n, WwwName \o Slash)

NamesReadableFile(r) ==
  /\ Reached(r).err = "none"
  /\ Reached(r).loc \in Files \ Unreadable
  /\ InRoot(Reached(r).loc)

NamesNothing(r) ==
  /\ InsideRoot(Normalised(r))
  /\ Reached(r).loc \notin Files \cup Directories

\* The form fields a body was encoded from, as the submitting form holds them.
Field(k, v) == [key |-> k, value |-> v]
NameKey == <<"n", "a", "m", "e">>

Fields(body) ==
  CASE body = B_None -> <<>>
    [] body = B_One -> <<Field(NameKey, <<"A", "d", "a">>)>>
    [] body = B_Repeated -> <<Field(NameKey, <<"A", "d", "a">>),
                              Field(NameKey, <<"L", "o", "v", "e", "l", "a", "c", "e">>)>>
    [] body = B_NonAscii -> <<Field(NameKey, <<"U+E9">>)>>
    [] body = B_RawNonAscii -> <<Field(<<"n">>, <<"U+E9">>)>>
    [] body = B_Blank -> <<Field(<<"a">>, <<>>), Field(<<"b">>, <<"1">>),
                           Field(<<"a">>, <<"2">>)>>

\* The first field of each key, in the order the keys first occur.
RECURSIVE FirstOfEachKey(_, _)
FirstOfEachKey(fields, seen) ==
  IF fields = <<>> THEN <<>>
  ELSE IF fields[1].key \in seen THEN FirstOfEachKey(Tail(fields), seen)
  ELSE <<fields[1]>> \o FirstOfEachKey(Tail(fields), seen \cup {fields[1].key})

HasValue(f) == f.value # <<>>

\* The confirmation line, then "key: value" and a line feed for each field.
RECURSIVE EchoLines(_)
EchoLines(fields) ==
  IF fields = <<>> THEN <<>>
  ELSE fields[1].key \o <<":", " ">> \o fields[1].value \o <<"\n">> \o EchoLines(Tail(fields))

Echo(fields) == encode(FormSubmitted \o EchoLines(fields))

\* The bytes that serialise a response value.
Serialized(v) == IF v.kind = "str" THEN encode(v.data) ELSE v.data

(***************************************************************************)
(* The claims.                                                             *)
(***************************************************************************)

\* C1: a GET whose decoded path names an existing readable file under the
\* static root is answered with status 200, a Content-Length equal to the
\* file's byte length, and the file's bytes as the body.
C1_ExistingFileServed ==
  \A c \in Conns :
    (Served(c) /\ IsRequest(sent[c], GET) /\ NamesReadableFile(sent[c]))
      => /\ WireStatus(wire[c]) = Str(200)
         /\ WireHeader(wire[c], ContentLengthHdr)
              = Str(Len(FileContent(Reached(sent[c]).loc)))
         /\ WireBody(wire[c]) = FileContent(Reached(sent[c]).loc)

\* C2: a GET whose decoded path stays inside the static root and names no
\* existing file is answered with status 404.
C2_MissingFileNotFound ==
  \A c \in Conns :
    (Served(c) /\ IsRequest(sent[c], GET) /\ NamesNothing(sent[c]))
      => WireStatus(wire[c]) = Str(404)

\* C3: no handler ever opens a location outside the static root or writes
\* such a file's content; a GET whose decoded path, joined to the root and
\* normalised, lies outside the root opens nothing and is answered with 403
\* and an empty body.
C3_TraversalForbidden ==
  \A c \in Conns :
    /\ \A loc \in opened[c] : InRoot(loc)
    /\ Find(wire[c], PasswdContent) = 0
    /\ (IsRequest(sent[c], GET) /\ ~InsideRoot(Normalised(sent[c])))
         => /\ opened[c] = {}
            /\ hpc[c] \notin {"except", "unwind", "crashed"}
            /\ Served(c) => /\ WireStatus(wire[c]) = Str(403)
                            /\ WireBody(wire[c]) = <<>>

\* A traversal request, plain or percent-encoded, was answered with 403.
C3_Witness ==
  \E c \in Conns :
    /\ Served(c)
    /\ sent[c] \in {WellFormed(GET, T_Traversal, B_None),
                    WellFormed(GET, T_EncodedTraversal, B_None)}
    /\ WireStatus(wire[c]) = Str(403)

\* C4: every response written carries a Content-Length equal to the number
\* of bytes of its body on the wire.
C4_ContentLengthIsBodyBytes ==
  \A c \in Conns :
    wire[c] # <<>>
      => WireHeader(wire[c], ContentLengthHdr) = Str(Len(WireBody(wire[c])))

\* C5 as claimed: a POST to /submit is answered with 200 and the
\* confirmation line followed by one line "key: first-value" per distinct
\* form key, in the order the keys first occur.
C5_EchoFirstValueOfEveryKey ==
  \A c \in Conns :
    (Served(c) /\ IsRequest(sent[c], POST) /\ PathOf(sent[c]) = SubmitPath)
      => /\ WireStatus(wire[c]) = Str(200)
         /\ WireBody(wire[c]) = Echo(FirstOfEachKey(Fields(sent[c].body), {}))

\* C5 as amended: the fields with an empty value are ignored; of the others
\* there is one line "key: first-value" per distinct key, in the order the
\* keys first occur among them.
C5_EchoFirstValueOfKeysWithValue ==
  \A c \in Conns :
    (Served(c) /\ IsRequest(sent[c], POST) /\ PathOf(sent[c]) = SubmitPath)
      => /\ WireStatus(wire[c]) = Str(200)
         /\ WireBody(wire[c])
              = Echo(FirstOfEachKey(SelectSeq(Fields(sent[c].body), HasValue), {}))

\* The body name=Ada&name=Lovelace was echoed as the one line "name: Ada".
C5_Witness ==
  \E c \in Conns :
    /\ Served(c)
    /\ sent[c] = WellFormed(POST, T_Submit, B_Repeated)
    /\ WireStatus(wire[c]) = Str(200)
    /\ WireBody(wire[c]) = FormSubmitted \o NameKey \o <<":", " ", "A", "d", "a", "\n">>

MalformedForms == {"two tokens", "four tokens", "blank line", "not utf-8", "empty read"}

ConnState(c) ==
  <<sock[c], sent[c], hpc[c], received[c], called[c], response[c], exc[c],
    opened[c], wire[c], closes[c]>>

\* No handler thread is left by an exception; malformed bytes raise in the
\* try block, are caught, and nothing is written; a served connection is
\* closed, once.
C7_MalformedStaysInHandler ==
  \A c \in Conns :
    /\ hpc[c] \notin {"unwind", "crashed"}
    /\ (sent[c].form \in MalformedForms /\ hpc[c] \notin {"none", "recv"})
         => /\ exc[c] \in {"ValueError", "UnicodeDecodeError"}
            /\ hpc[c] \in {"except", "finally", "done"}
            /\ wire[c] = <<>>
    /\ Served(c) => sock[c] = "closed" /\ closes[c] = 1

\* A step of one handler leaves the Acceptor and every other connection as
\* they are.
C7_HandlerStepIsLocal ==
  \A c \in Conns :
    (hpc[c] # "none" /\ hpc'[c] # hpc[c])
      => /\ acceptorVars' = acceptorVars
         /\ \A d \in Conns \ {c} : ConnState(d)' = ConnState(d)

\* C7: a connection whose bytes are malformed (a request line without three
\* tokens, an empty read, bytes that are not UTF-8) raises inside
\* handle_client, the exception is caught there, nothing is written and the
\* connection is closed once; no handler thread ends on an uncaught
\* exception, and a handler's step leaves the Acceptor and every other
\* connection as they are.
C7_MalformedContained ==
  [](C7_MalformedStaysInHandler) /\ [][C7_HandlerStepIsLocal]_vars

\* A connection with bytes that are not UTF-8 was closed after the caught
\* exception, a later one was answered, and the Acceptor is still accepting.
C7_Witness ==
  \E c, d \in Conns :
    /\ c < d
    /\ Served(c) /\ sent[c].form = "not utf-8" /\ exc[c] = "UnicodeDecodeError"
    /\ Served(d) /\ sent[d].form = "well-formed" /\ wire[d] # <<>>
    /\ apc = "accept" /\ listening

\* A response that was returned is on the wire, whole, from the moment
\* sendall has run, and the connection is closed once, after that.
C8_WrittenWhenClosed ==
  \A c \in Conns :
    /\ closes[c] <= 1
    /\ (closes[c] = 1) = (sock[c] = "closed")
    /\ (sent[c].form = "well-formed" /\ response[c].kind # "none")
         => /\ hpc[c] \in {"send", "finally", "done"}
            /\ hpc[c] = "send" => wire[c] = <<>> /\ sock[c] = "open"
            /\ hpc[c] \in {"finally", "done"} => wire[c] = Serialized(response[c])
            /\ Served(c) => sock[c] = "closed"

\* A closed connection stays closed and is not written to.
C8_ClosedIsFinal ==
  \A c \in Conns :
    sock[c] = "closed" => sock'[c] = "closed" /\ wire'[c] = wire[c]

\* C8: once the handler of a well-formed request has returned a response,
\* the connection is not closed before the whole serialised response is
\* written; it is closed exactly once, and nothing is written after.
C8_ResponseWrittenThenClosed ==
  [](C8_WrittenWhenClosed) /\ [][C8_ClosedIsFinal]_vars

\* The 403 that answers GET /index.html is on the wire, whole, and the
\* connection was closed once.
C8_Witness ==
  \E c \in Conns :
    /\ Served(c)
    /\ sent[c] = WellFormed(GET, T_Index, B_None)
    /\ response[c].kind = "str"
    /\ wire[c] = encode(response[c].data)
    /\ closes[c] = 1

\* C9: the Acceptor never waits on a handler.  Whatever handlers are blocked
\* in recv on silent clients, a connection that arrives is accepted and
\* given its thread unless start() has ended, and a handler whose client has
\* sent runs to completion and closes its connection.
C9_AcceptorNeverWaits ==
  \A c \in Conns :
    /\ (sock[c] = "pending") ~> (hpc[c] # "none" \/ apc = "stopped")
    /\ (hpc[c] = "recv" /\ sent[c] # NoRequest) ~> (Served(c) /\ sock[c] = "closed")

\* A later connection is served and closed while an earlier handler is
\* still blocked in recv.
C9_Witness ==
  \E c, d \in Conns :
    /\ c < d
    /\ hpc[c] = "recv" /\ sent[c] = NoRequest
    /\ Served(d) /\ sock[d] = "closed"

\* C10: start() leaves the accept loop and closes the listening socket only
\* on an interrupt.
C10_OnlyInterruptStops ==
  (apc = "stopped" \/ ~listening) => stop = "KeyboardInterrupt"

====
